---- MODULE Spec2Model ----
(***************************************************************************)
(* Model of the fuzzy matching and ranking pipeline of qml_dictation:      *)
(* lilium_palette/fuzzy.py (fuzzy_match, fuzzy_score, build_sql_pattern)   *)
(* and the SQL prefilter of palette/models.py (search_notes).              *)
(*                                                                         *)
(* Python strings are modelled as sequences of one-character strings.      *)
(* Python indices are 0-based and are kept 0-based here: At(s, i) reads    *)
(* s[i] of the source.  The character domain is ASCII: str.lower() maps    *)
(* each character to one character, as the source's use of len(target)     *)
(* as the bound of a scan over target.lower() presupposes.                 *)
(***************************************************************************)
EXTENDS Integers, Sequences, FiniteSets, TLC

VARIABLES query, target, match_ret, score_ret, boundary_ret, pattern, candidate

\* rank_matches: its items and limit arguments and its return values
VARIABLES items, limit, rank_ret, perm_ret

\* search_notes: the stored rows, the candidate_limit argument, the storage
\* fault injected, the storage operations performed and the return value
VARIABLES db, candidate_limit, fail_at, db_log, search_ret

\* dictation IPC: the socket file and the server's listening socket, the
\* client's command, position and return value, the connection, the bytes
\* in flight each way, what the server read, the signals emitted, the slots
\* run, and the window's visible property and the application's quit flag
VARIABLES sock_path, listening, command, client_pc, client_ret, conn, inbuf,
          reply, received, emitted, handled, visible, quit_called

rank_vars == <<items, limit, rank_ret, perm_ret>>

search_vars == <<db, candidate_limit, fail_at, db_log, search_ret>>

\* dictation controller: the controller, the clipboard, the recorder and
\* the transcriber objects, the temporary files, the worker's queued
\* signals, what the last handler did (effects), which handler it was and
\* in which state and with which argument it began (last_call), the slot
\* calls made so far, and the number of times the Transcriber has emitted
\* transcription_finished or transcription_error (ended)
VARIABLES controller, clipboard, recorder, transcriber, files, mailbox,
          effects, last_call, calls, ended

ctl_vars == <<controller, clipboard, recorder, transcriber, files, mailbox,
              effects, last_call, calls, ended>>

ipc_vars == <<sock_path, listening, command, client_pc, client_ret, conn, inbuf,
              reply, received, emitted, handled, visible, quit_called>>

\* NoteSearchModel: the database path and the results it holds, the calls
\* the last search() made on its base class QAbstractListModel, whether
\* that search raised, the results held when it began, and the number of
\* searches so far
VARIABLES _db_path, _results, qt_calls, search_raised, results_before, searches

nsm_vars == <<_db_path, _results, qt_calls, search_raised, results_before,
              searches>>

vars == <<query, target, match_ret, score_ret, boundary_ret, pattern, candidate,
          rank_vars, search_vars, ipc_vars, ctl_vars, nsm_vars>>

-----------------------------------------------------------------------------
(* Bounds of the explored inputs. *)

MaxTargetLen == 4
MaxQueryLen == 2
MaxBoundaryLen == 2
MaxLikeLen == 2
MaxItems == 3

\* slot calls (toggle, reset, copyToClipboard) in one run of the controller
MaxCalls == 5

-----------------------------------------------------------------------------
(* Python str primitives. *)

AsciiLower == <<"a","b","c","d","e","f","g","h","i","j","k","l","m",
                "n","o","p","q","r","s","t","u","v","w","x","y","z">>
AsciiUpper == <<"A","B","C","D","E","F","G","H","I","J","K","L","M",
                "N","O","P","Q","R","S","T","U","V","W","X","Y","Z">>

\* s[i] with the source's 0-based index
At(s, i) == s[i + 1]

\* c.islower() / c.isupper() of one character
islower(c) == \E k \in 1..Len(AsciiLower) : AsciiLower[k] = c
isupper(c) == \E k \in 1..Len(AsciiUpper) : AsciiUpper[k] = c

\* c.lower() of one character
lower_char(c) ==
    IF isupper(c)
    THEN AsciiLower[CHOOSE k \in 1..Len(AsciiUpper) : AsciiUpper[k] = c]
    ELSE c

\* s.lower()
lower(s) == [k \in 1..Len(s) |-> lower_char(s[k])]

\* s.replace(old, new) for a one-character old and a sequence new
RECURSIVE replace(_, _, _)
replace(s, old, new) ==
    IF s = <<>> THEN <<>>
    ELSE (IF Head(s) = old THEN new ELSE <<Head(s)>>) \o replace(Tail(s), old, new)

\* sep.join(s) for a one-character sep, s iterated character by character
RECURSIVE join(_, _)
join(sep, s) ==
    IF Len(s) <= 1 THEN s
    ELSE <<Head(s), sep>> \o join(sep, Tail(s))

-----------------------------------------------------------------------------
(* fuzzy.py: scoring constants *)

SCORE_CONSECUTIVE == 16
SCORE_WORD_BOUNDARY == 32
SCORE_FIRST_CHAR == 16
SCORE_GAP_PENALTY == -3

WORD_BOUNDARY_CHARS == {"/", "_", "-", ".", " "}

\* return None
None == [matched |-> FALSE, score |-> 0, positions |-> <<>>]

\* FuzzyMatch(score=..., positions=...)
FuzzyMatch(score, positions) ==
    [matched |-> TRUE, score |-> score, positions |-> positions]

\* Faulty variant of _is_word_boundary: the test reads the lower-cased copy
\* of the target, so a camelCase transition is never seen.
is_word_boundary_lowered(t, index) ==
    IF index = 0 THEN TRUE
    ELSE LET prev_char == At(lower(t), index - 1) IN
         IF prev_char \in WORD_BOUNDARY_CHARS THEN TRUE
         ELSE LET curr_char == At(lower(t), index) IN
              IF islower(prev_char) /\ isupper(curr_char) THEN TRUE
              ELSE FALSE

\* _is_word_boundary(target, index)
is_word_boundary(t, index) ==
    IF index = 0 THEN TRUE
    ELSE LET prev_char == At(t, index - 1) IN
         IF prev_char \in WORD_BOUNDARY_CHARS THEN TRUE
         ELSE LET curr_char == At(t, index) IN
              IF islower(prev_char) /\ isupper(curr_char) THEN TRUE
              ELSE FALSE

\* Faulty variant of the scoring step: the gap penalty is charged once
\* instead of once per skipped character.
match_score_step_flat_gap(t, query_idx, target_idx, prev_match_idx) ==
    (IF query_idx = 0 /\ target_idx = 0 THEN SCORE_FIRST_CHAR ELSE 0)
    + (IF is_word_boundary(t, target_idx) THEN SCORE_WORD_BOUNDARY ELSE 0)
    + (IF prev_match_idx >= 0
       THEN LET gap == target_idx - prev_match_idx - 1 IN
            IF gap = 0 THEN SCORE_CONSECUTIVE ELSE SCORE_GAP_PENALTY
       ELSE 0)

\* Faulty variant of the scoring step: the adjacency rule is an elif of the
\* word-boundary rule, so a character never gets both.
match_score_step_exclusive(t, query_idx, target_idx, prev_match_idx) ==
    (IF query_idx = 0 /\ target_idx = 0 THEN SCORE_FIRST_CHAR ELSE 0)
    + (IF is_word_boundary(t, target_idx) THEN SCORE_WORD_BOUNDARY
       ELSE IF prev_match_idx >= 0
       THEN LET gap == target_idx - prev_match_idx - 1 IN
            IF gap = 0 THEN SCORE_CONSECUTIVE ELSE gap * SCORE_GAP_PENALTY
       ELSE 0)

\* Faulty variant of the scoring step: the word-boundary bonus is missing.
match_score_step_no_boundary(t, query_idx, target_idx, prev_match_idx) ==
    (IF query_idx = 0 /\ target_idx = 0 THEN SCORE_FIRST_CHAR ELSE 0)
    + (IF prev_match_idx >= 0
       THEN LET gap == target_idx - prev_match_idx - 1 IN
            IF gap = 0 THEN SCORE_CONSECUTIVE ELSE gap * SCORE_GAP_PENALTY
       ELSE 0)

\* fuzzy_match, "Score this match": the amount added to score for a match of
\* query[query_idx] at target[target_idx] after a match at prev_match_idx
match_score_step(t, query_idx, target_idx, prev_match_idx) ==
    (IF query_idx = 0 /\ target_idx = 0 THEN SCORE_FIRST_CHAR ELSE 0)
    + (IF is_word_boundary(t, target_idx) THEN SCORE_WORD_BOUNDARY ELSE 0)
    + (IF prev_match_idx >= 0
       THEN LET gap == target_idx - prev_match_idx - 1 IN
            IF gap = 0 THEN SCORE_CONSECUTIVE ELSE gap * SCORE_GAP_PENALTY
       ELSE 0)

\* Faulty variant of the match step: "target_idx += 1" is missing, so the
\* next query character is searched from the matched index itself.
record_match_no_advance(t, st) ==
    [query_idx |-> st.query_idx + 1,
     target_idx |-> st.target_idx,
     prev_match_idx |-> st.target_idx,
     score |-> st.score + match_score_step(t, st.query_idx, st.target_idx,
                                           st.prev_match_idx),
     positions |-> Append(st.positions, st.target_idx)]

\* fuzzy_match, the body of "if target_lower[target_idx] == query_char":
\* the loop variables after the match at st.target_idx is recorded and
\* query_idx moves to the next query character
record_match(t, st) ==
    [query_idx |-> st.query_idx + 1,
     target_idx |-> st.target_idx + 1,
     prev_match_idx |-> st.target_idx,
     score |-> st.score + match_score_step(t, st.query_idx, st.target_idx,
                                           st.prev_match_idx),
     positions |-> Append(st.positions, st.target_idx)]

\* Faulty variant of the not-found exit: the characters matched so far are
\* returned as a result.
not_found_partial(st) == FuzzyMatch(st.score, st.positions)

\* fuzzy_match, "if not found: return None"
not_found(st) == None

\* fuzzy_match: the for loop over query_lower with its inner while loop.
\* st holds the loop variables query_idx, target_idx, prev_match_idx, score
\* and positions.
RECURSIVE fuzzy_match_scan(_, _, _, _, _)
fuzzy_match_scan(query_lower, t, target_lower, target_len, st) ==
    IF st.query_idx >= Len(query_lower)
    THEN FuzzyMatch(st.score, st.positions)
    ELSE IF ~(st.target_idx < target_len)
    THEN not_found(st)
    ELSE IF At(target_lower, st.target_idx) = At(query_lower, st.query_idx)
    THEN fuzzy_match_scan(query_lower, t, target_lower, target_len,
                          record_match(t, st))
    ELSE fuzzy_match_scan(query_lower, t, target_lower, target_len,
                          [st EXCEPT !.target_idx = st.target_idx + 1])

\* Faulty variant of fuzzy_match: the scan compares against the target as
\* given instead of its lower-cased copy.
fuzzy_match_case_sensitive(q, t) ==
    IF q = <<>> THEN FuzzyMatch(0, <<>>)
    ELSE LET query_lower == lower(q)
             query_len == Len(q)
             target_len == Len(t)
         IN IF query_len > target_len THEN None
            ELSE fuzzy_match_scan(query_lower, t, t, target_len,
                    [query_idx |-> 0, target_idx |-> 0, prev_match_idx |-> -1,
                     score |-> 0, positions |-> <<>>])

\* Faulty variant of fuzzy_match: the quick length check returns the empty
\* match of the empty-query case.
fuzzy_match_long_query_empty(q, t) ==
    IF q = <<>> THEN FuzzyMatch(0, <<>>)
    ELSE LET query_lower == lower(q)
             target_lower == lower(t)
             query_len == Len(q)
             target_len == Len(t)
         IN IF query_len > target_len THEN FuzzyMatch(0, <<>>)
            ELSE fuzzy_match_scan(query_lower, t, target_lower, target_len,
                    [query_idx |-> 0, target_idx |-> 0, prev_match_idx |-> -1,
                     score |-> 0, positions |-> <<>>])

\* fuzzy_match(query, target)
fuzzy_match(q, t) ==
    IF q = <<>> THEN FuzzyMatch(0, <<>>)
    ELSE LET query_lower == lower(q)
             target_lower == lower(t)
             query_len == Len(q)
             target_len == Len(t)
         IN IF query_len > target_len THEN None
            ELSE fuzzy_match_scan(query_lower, t, target_lower, target_len,
                    [query_idx |-> 0, target_idx |-> 0, prev_match_idx |-> -1,
                     score |-> 0, positions |-> <<>>])

\* return None of fuzzy_score
NoScore == [matched |-> FALSE, score |-> 0]

\* return <int> of fuzzy_score
Score(score) == [matched |-> TRUE, score |-> score]

\* Faulty variant of the scoring step of fuzzy_score: the first-character
\* bonus is left out.
score_step_no_first_char(t, query_idx, target_idx, prev_match_idx) ==
    (IF is_word_boundary(t, target_idx) THEN SCORE_WORD_BOUNDARY ELSE 0)
    + (IF prev_match_idx >= 0
       THEN LET gap == target_idx - prev_match_idx - 1 IN
            IF gap = 0 THEN SCORE_CONSECUTIVE ELSE gap * SCORE_GAP_PENALTY
       ELSE 0)

\* fuzzy_score: the amount added to score for one matched character
score_step(t, query_idx, target_idx, prev_match_idx) ==
    (IF query_idx = 0 /\ target_idx = 0 THEN SCORE_FIRST_CHAR ELSE 0)
    + (IF is_word_boundary(t, target_idx) THEN SCORE_WORD_BOUNDARY ELSE 0)
    + (IF prev_match_idx >= 0
       THEN LET gap == target_idx - prev_match_idx - 1 IN
            IF gap = 0 THEN SCORE_CONSECUTIVE ELSE gap * SCORE_GAP_PENALTY
       ELSE 0)

\* fuzzy_score, the body of "if target_lower[target_idx] == query_char"
score_match(t, st) ==
    [query_idx |-> st.query_idx + 1,
     target_idx |-> st.target_idx + 1,
     prev_match_idx |-> st.target_idx,
     score |-> st.score + score_step(t, st.query_idx, st.target_idx,
                                     st.prev_match_idx)]

\* fuzzy_score: the for loop over query_lower with its inner while loop
RECURSIVE fuzzy_score_scan(_, _, _, _, _)
fuzzy_score_scan(query_lower, t, target_lower, target_len, st) ==
    IF st.query_idx >= Len(query_lower)
    THEN Score(st.score)
    ELSE IF ~(st.target_idx < target_len)
    THEN NoScore
    ELSE IF At(target_lower, st.target_idx) = At(query_lower, st.query_idx)
    THEN fuzzy_score_scan(query_lower, t, target_lower, target_len,
                          score_match(t, st))
    ELSE fuzzy_score_scan(query_lower, t, target_lower, target_len,
                          [st EXCEPT !.target_idx = st.target_idx + 1])

\* Faulty variant of fuzzy_score: an empty query is reported as no match.
fuzzy_score_empty_none(q, t) ==
    IF q = <<>> THEN NoScore
    ELSE LET query_lower == lower(q)
             target_lower == lower(t)
             query_len == Len(q)
             target_len == Len(t)
         IN IF query_len > target_len THEN NoScore
            ELSE fuzzy_score_scan(query_lower, t, target_lower, target_len,
                    [query_idx |-> 0, target_idx |-> 0, prev_match_idx |-> -1,
                     score |-> 0])

\* fuzzy_score(query, target)
fuzzy_score(q, t) ==
    IF q = <<>> THEN Score(0)
    ELSE LET query_lower == lower(q)
             target_lower == lower(t)
             query_len == Len(q)
             target_len == Len(t)
         IN IF query_len > target_len THEN NoScore
            ELSE fuzzy_score_scan(query_lower, t, target_lower, target_len,
                    [query_idx |-> 0, target_idx |-> 0, prev_match_idx |-> -1,
                     score |-> 0])

\* Faulty variant of build_sql_pattern: the pattern is built from the query
\* as typed, without lower-casing it.
build_sql_pattern_no_lower(q) ==
    IF q = <<>> THEN <<"%">>
    ELSE LET escaped == replace(replace(q, "%", <<"\\", "%">>),
                                "_", <<"\\", "_">>)
         IN <<"%">> \o join("%", escaped) \o <<"%">>

\* build_sql_pattern(query)
build_sql_pattern(q) ==
    IF q = <<>> THEN <<"%">>
    ELSE LET escaped == replace(replace(q, "%", <<"\\", "%">>),
                                "_", <<"\\", "_">>)
         IN <<"%">> \o join("%", lower(escaped)) \o <<"%">>

-----------------------------------------------------------------------------
(* models.py, search_notes: WHERE LOWER(full_path) LIKE ? ESCAPE '\' *)

\* SQL LOWER(x)
sql_lower(s) == lower(s)

\* x LIKE p ESCAPE '\': '%' matches any run of characters, '_' any one
\* character, '\' makes the next pattern character a literal (a pattern that
\* ends in '\' matches nothing); literals compare without regard to ASCII case.
\* i, j are 1-based cursors into p and s.
RECURSIVE like_from(_, _, _, _)
like_from(p, s, i, j) ==
    IF i > Len(p) THEN j > Len(s)
    ELSE IF p[i] = "%"
    THEN \E k \in j..(Len(s) + 1) : like_from(p, s, i + 1, k)
    ELSE IF p[i] = "\\"
    THEN /\ i + 1 <= Len(p)
         /\ j <= Len(s)
         /\ lower_char(p[i + 1]) = lower_char(s[j])
         /\ like_from(p, s, i + 2, j + 1)
    ELSE IF p[i] = "_"
    THEN j <= Len(s) /\ like_from(p, s, i + 1, j + 1)
    ELSE /\ j <= Len(s)
         /\ lower_char(p[i]) = lower_char(s[j])
         /\ like_from(p, s, i + 1, j + 1)

sql_like(s, p) == like_from(p, s, 1, 1)

-----------------------------------------------------------------------------
(* fuzzy.py: rank_matches *)

\* the ASCII characters U+0020..U+005F and U+007B..U+007E in code point
\* order; the lower-case letters U+0061..U+007A are AsciiLower
AsciiLow ==
    <<" ", "!", "\"", "#", "$", "%", "&", "'", "(", ")", "*", "+",
      ",", "-", ".", "/", "0", "1", "2", "3", "4", "5", "6", "7",
      "8", "9", ":", ";", "<", "=", ">", "?", "@", "A", "B", "C",
      "D", "E", "F", "G", "H", "I", "J", "K", "L", "M", "N", "O",
      "P", "Q", "R", "S", "T", "U", "V", "W", "X", "Y", "Z", "[",
      "\\", "]", "^", "_">>
AsciiHigh == <<"{", "|", "}", "~">>

\* ord(c)
ord(c) ==
    IF \E k \in 1..Len(AsciiLow) : AsciiLow[k] = c
    THEN 31 + (CHOOSE k \in 1..Len(AsciiLow) : AsciiLow[k] = c)
    ELSE IF \E k \in 1..Len(AsciiLower) : AsciiLower[k] = c
    THEN 96 + (CHOOSE k \in 1..Len(AsciiLower) : AsciiLower[k] = c)
    ELSE 122 + (CHOOSE k \in 1..Len(AsciiHigh) : AsciiHigh[k] = c)

\* a < b of two str: the first differing character decides by code point, a
\* proper prefix is smaller
RECURSIVE str_lt(_, _)
str_lt(a, b) ==
    IF b = <<>> THEN FALSE
    ELSE IF a = <<>> THEN TRUE
    ELSE IF Head(a) # Head(b) THEN ord(Head(a)) < ord(Head(b))
    ELSE str_lt(Tail(a), Tail(b))

\* s[:stop] of a list
slice_to(s, stop) ==
    LET n == IF stop < 0
             THEN (IF Len(s) + stop < 0 THEN 0 ELSE Len(s) + stop)
             ELSE (IF stop > Len(s) THEN Len(s) ELSE stop)
    IN SubSeq(s, 1, n)

\* key=lambda note: note.full_path, the key function search_notes passes
key(item) == item.full_path

\* Faulty variant of the sort key: the score is not negated, so the sort is
\* by ascending score.
sort_key_ascending(x) == <<x.score, key(x.item)>>

\* Faulty variant of the sort key: ties in score are not broken by the key.
sort_key_score_only(x) == <<-x.score, <<>>>>

\* key=lambda x: (-x[1], key(x[0]))
sort_key(x) == <<-x.score, key(x.item)>>

\* a < b of two sort keys (tuple comparison)
sort_key_lt(a, b) ==
    \/ a[1] < b[1]
    \/ a[1] = b[1] /\ str_lt(a[2], b[2])

\* list.sort is stable: x goes behind every element that does not sort
\* after it
RECURSIVE insert_sorted(_, _)
insert_sorted(sorted, x) ==
    IF sorted = <<>> THEN <<x>>
    ELSE IF sort_key_lt(sort_key(x), sort_key(Head(sorted)))
    THEN <<x>> \o sorted
    ELSE <<Head(sorted)>> \o insert_sorted(Tail(sorted), x)

\* scored.sort(key=...)
RECURSIVE sort_scored(_)
sort_scored(scored) ==
    IF scored = <<>> THEN <<>>
    ELSE insert_sorted(sort_scored(SubSeq(scored, 1, Len(scored) - 1)),
                       scored[Len(scored)])

\* Faulty variant of the loop body: an item is appended whether or not it
\* matched.
append_scored_always(scored, item, score) ==
    Append(scored, [item |-> item, score |-> score.score])

\* "if score is not None: scored.append((item, score))"
append_scored(scored, item, score) ==
    IF score.matched
    THEN Append(scored, [item |-> item, score |-> score.score])
    ELSE scored

\* "for item in items": scored after the items from index i (1-based) on
RECURSIVE score_items(_, _, _, _)
score_items(q, its, scored, i) ==
    IF i > Len(its) THEN scored
    ELSE score_items(q, its,
                     append_scored(scored, its[i], fuzzy_score(q, key(its[i]))),
                     i + 1)

\* what a call of rank_matches does: the list it returns, whether it raised,
\* and how many times it ran fuzzy_score
RankReturn(value, score_calls) ==
    [raised |-> FALSE, value |-> value, score_calls |-> score_calls]

\* Faulty variant of rank_matches: the empty-query case is not special.
rank_matches_no_browse(q, its, lim) ==
    RankReturn(slice_to(sort_scored(score_items(q, its, <<>>, 1)), lim),
               Len(its))

\* Faulty variant of rank_matches: the scored list is cut to limit before it
\* is sorted.
rank_matches_cut_first(q, its, lim) ==
    IF q = <<>>
    THEN RankReturn([k \in 1..Len(slice_to(its, lim)) |->
                        [item |-> its[k], score |-> 0]], 0)
    ELSE RankReturn(sort_scored(slice_to(score_items(q, its, <<>>, 1), lim)),
                    Len(its))

\* rank_matches(query, items, key, limit)
rank_matches(q, its, lim) ==
    IF q = <<>>
    THEN RankReturn([k \in 1..Len(slice_to(its, lim)) |->
                        [item |-> its[k], score |-> 0]], 0)
    ELSE RankReturn(slice_to(sort_scored(score_items(q, its, <<>>, 1)), lim),
                    Len(its))

-----------------------------------------------------------------------------
(* models.py: search_notes.  A note is [id, full_path]; the title of a      *)
(* NoteResult is carried along unread and is left out.                      *)

\* the characters str.strip() removes
Whitespace == {" ", "\t", "\n", "\r", "\f"}

\* s.lstrip()
RECURSIVE lstrip(_)
lstrip(s) ==
    IF s # <<>> /\ Head(s) \in Whitespace THEN lstrip(Tail(s)) ELSE s

\* s.rstrip()
RECURSIVE rstrip(_)
rstrip(s) ==
    IF s # <<>> /\ s[Len(s)] \in Whitespace
    THEN rstrip(SubSeq(s, 1, Len(s) - 1))
    ELSE s

\* s.strip()
strip(s) == rstrip(lstrip(s))

\* WHERE LOWER(full_path) LIKE ? ESCAPE '\': the rows selected
sql_where(rows, search_pattern) ==
    {row \in rows : sql_like(sql_lower(row.full_path), search_pattern)}

\* ORDER BY full_path: every listing of the rows in which no row comes
\* before a row with a smaller full_path; rows with equal full_path come in
\* either order
sql_order_by(rows) ==
    {l \in [1..Cardinality(rows) -> rows] :
        /\ \A i, j \in 1..Cardinality(rows) : i # j => l[i] # l[j]
        /\ \A i \in 1..(Cardinality(rows) - 1) :
              ~str_lt(l[i + 1].full_path, l[i].full_path)}

\* Faulty variant of sql_limit: the statement has no LIMIT.
sql_limit_none(l, n) == l

\* LIMIT ?: a negative limit is no limit
sql_limit(l, n) ==
    IF n < 0 \/ n > Len(l) THEN l ELSE SubSeq(l, 1, n)

\* the results cursor.fetchall() can return for the statement
sql_select(rows, search_pattern, n) ==
    {sql_limit(l, n) : l \in sql_order_by(sql_where(rows, search_pattern))}

\* what a call of search_notes does: the list it returns or the error it
\* raises, and the storage operations it performed
SearchReturn(raised, value, log) ==
    [ret |-> [raised |-> raised, value |-> value], log |-> log]

\* "return [note for note, _score in ranked]"
notes_of(ranked) == [k \in 1..Len(ranked) |-> ranked[k].item]

\* Faulty variant of search_notes: the blank check reads the query without
\* stripping it.
search_notes_no_strip(q, lim, fault, fetched) ==
    IF q = <<>> THEN SearchReturn(FALSE, <<>>, <<>>)
    ELSE IF fault = "connect"
    THEN SearchReturn(TRUE, <<>>, <<"connect">>)
    ELSE IF fault = "execute"
    THEN SearchReturn(TRUE, <<>>, <<"connect", "execute", "close">>)
    ELSE SearchReturn(FALSE, notes_of(rank_matches(q, fetched, lim).value),
                      <<"connect", "execute", "close">>)

\* Faulty variant of search_notes: a failed storage query is caught and
\* answered with an empty list.
search_notes_masks_failure(q, lim, fault, fetched) ==
    IF strip(q) = <<>> THEN SearchReturn(FALSE, <<>>, <<>>)
    ELSE IF fault = "connect"
    THEN SearchReturn(TRUE, <<>>, <<"connect">>)
    ELSE IF fault = "execute"
    THEN SearchReturn(FALSE, <<>>, <<"connect", "execute", "close">>)
    ELSE SearchReturn(FALSE, notes_of(rank_matches(q, fetched, lim).value),
                      <<"connect", "execute", "close">>)

\* search_notes(db_path, query, limit, candidate_limit), where fetched is
\* what cursor.fetchall() returns and fault is the storage call that raises:
\* sqlite3.connect (before the try), cursor.execute (inside it, so the
\* finally clause closes the connection), or none
search_notes(q, lim, fault, fetched) ==
    IF strip(q) = <<>> THEN SearchReturn(FALSE, <<>>, <<>>)
    ELSE IF fault = "connect"
    THEN SearchReturn(TRUE, <<>>, <<"connect">>)
    ELSE IF fault = "execute"
    THEN SearchReturn(TRUE, <<>>, <<"connect", "execute", "close">>)
    ELSE SearchReturn(FALSE, notes_of(rank_matches(q, fetched, lim).value),
                      <<"connect", "execute", "close">>)

-----------------------------------------------------------------------------
(* palette/models.py: NoteSearchModel *)

\* the defaults of search_notes's limit and candidate_limit parameters
DEFAULT_LIMIT == 50
DEFAULT_CANDIDATE_LIMIT == 500

\* NoteSearchModel.set_db_path(path)
set_db_path(self, path) == [self EXCEPT !._db_path = <<path>>]

\* NoteSearchModel.search(query), where r is what the call
\* search_notes(self._db_path, query) returns or raises: without a database
\* path it returns at once; otherwise beginResetModel() is called, then
\* search_notes, and only when that returns are _results assigned and
\* endResetModel() called (there is no try around the call, so an
\* exception leaves search after beginResetModel alone)
search(self, r) ==
    IF self._db_path = <<>>
    THEN [self |-> self, raised |-> FALSE, qt_calls |-> <<>>]
    ELSE IF r.ret.raised
    THEN [self |-> self, raised |-> TRUE, qt_calls |-> <<"beginResetModel">>]
    ELSE [self |-> [self EXCEPT !._results = r.ret.value],
          raised |-> FALSE,
          qt_calls |-> <<"beginResetModel", "endResetModel">>]

-----------------------------------------------------------------------------
(* dictation/ipc.py and the slots of dictation/app.py connected to it *)

\* one character of s.upper()
upper_char(c) ==
    IF islower(c)
    THEN AsciiUpper[CHOOSE k \in 1..Len(AsciiLower) : AsciiLower[k] = c]
    ELSE c

\* s.upper()
upper(s) == [k \in 1..Len(s) |-> upper_char(s[k])]

\* the size passed to recv
RECV_SIZE == 64

\* recv(n) on a stream holding data: at most the first n bytes
recv(data, n) == IF Len(data) <= n THEN data ELSE SubSeq(data, 1, n)

\* the reply b"OK\n"
OK_REPLY == <<"O", "K", "\n">>

\* Faulty variant of _process_command: the command is compared as received.
process_command_case_sensitive(cmd) ==
    IF cmd = <<"T", "O", "G", "G", "L", "E">> THEN <<"toggle_requested">>
    ELSE IF cmd = <<"S", "H", "O", "W">> THEN <<"show_requested">>
    ELSE IF cmd = <<"H", "I", "D", "E">> THEN <<"hide_requested">>
    ELSE IF cmd = <<"Q", "U", "I", "T">> \/ cmd = <<"S", "T", "O", "P">>
    THEN <<"quit_requested">>
    ELSE <<>>

\* Faulty variant of _process_command: nothing is emitted.
process_command_ignored(cmd) == <<>>

\* IPCServer._process_command: the signals it emits
process_command(cmd) ==
    LET c == upper(cmd) IN
    IF c = <<"T", "O", "G", "G", "L", "E">> THEN <<"toggle_requested">>
    ELSE IF c = <<"S", "H", "O", "W">> THEN <<"show_requested">>
    ELSE IF c = <<"H", "I", "D", "E">> THEN <<"hide_requested">>
    ELSE IF c = <<"Q", "U", "I", "T">> \/ c = <<"S", "T", "O", "P">>
    THEN <<"quit_requested">>
    ELSE <<>>

\* the slot DictationApp.run connects to each signal
slot_of(signal) ==
    CASE signal = "toggle_requested" -> "_toggle_window"
      [] signal = "show_requested" -> "_show_window"
      [] signal = "hide_requested" -> "_hide_window"
      [] signal = "quit_requested" -> "_quit_app"

\* the window's visible property after the slot has run
visible_after(slot, vis) ==
    CASE slot = "_toggle_window" -> ~vis
      [] slot = "_show_window" -> TRUE
      [] slot = "_hide_window" -> FALSE
      [] OTHER -> vis

-----------------------------------------------------------------------------
(* dictation/controller.py with audio.py and transcriber.py.  The handlers  *)
(* are operators on a record w of the objects they touch:                   *)
(*   w.controller  DictationController: state, transcribed_text,            *)
(*                 error_message, progress_message                          *)
(*   w.clipboard   the QClipboard given to the controller, if any           *)
(*   w.recorder    AudioRecorder: is_recording, stream, and the number of   *)
(*                 input streams that are open                              *)
(*   w.transcriber Transcriber: whether _thread is set, whether its worker  *)
(*                 has run, the worker's audio path, the paths handed out   *)
(*   w.files       the temporary WAV files that exist                       *)
(*   w.mailbox     the worker's signals queued for the main thread          *)
(*   w.effects     what the handler did: signals emitted, calls made        *)

\* DictationState
IDLE == "IDLE"
RECORDING == "RECORDING"
TRANSCRIBING == "TRANSCRIBING"
COMPLETED == "COMPLETED"
ERROR == "ERROR"

\* signal.emit() and calls of the components, in the order made
emit(w, what) == [w EXCEPT !.effects = @ \o what]

\* DictationController._reset
_reset(w) ==
    emit([w EXCEPT !.controller.transcribed_text = "",
                   !.controller.error_message = "",
                   !.controller.progress_message = "",
                   !.controller.state = IDLE],
         <<"stateChanged", "transcribedTextChanged", "errorMessageChanged",
           "progressMessageChanged">>)

\* AudioRecorder.start(): fault "device" makes sd.InputStream(...) raise,
\* fault "stream" makes self._stream.start() raise
recorder_start(rec, fault) ==
    IF fault = "device"
    THEN [rec |-> [rec EXCEPT !.is_recording = TRUE], raised |-> TRUE]
    ELSE [rec |-> [rec EXCEPT !.is_recording = TRUE,
                              !.stream = "open",
                              !.open_streams = @ + 1],
          raised |-> (fault = "stream")]

\* AudioRecorder.stop() writing the file path: fault "stream" makes
\* self._stream.stop() raise, fault "file" makes the creation of the
\* temporary file raise
recorder_stop(rec, fault) ==
    IF fault = "stream" /\ rec.stream # "none"
    THEN [rec |-> [rec EXCEPT !.is_recording = FALSE],
          raised |-> TRUE, written |-> FALSE]
    ELSE [rec |-> [rec EXCEPT !.is_recording = FALSE,
                              !.stream = "none",
                              !.open_streams =
                                  IF rec.stream # "none" THEN @ - 1 ELSE @],
          raised |-> (fault = "file"), written |-> (fault # "file")]

\* Faulty variant of worker_signals: an exception while the model loads is
\* swallowed, no error signal is emitted.
worker_signals_silent_load_error(outcome) ==
    CASE outcome.kind = "finished" ->
            <<[kind |-> "progress", arg |-> "Loading model..."],
              [kind |-> "progress", arg |-> "Transcribing..."],
              [kind |-> "finished", arg |-> outcome.arg]>>
      [] outcome.kind = "transcribe_error" ->
            <<[kind |-> "progress", arg |-> "Loading model..."],
              [kind |-> "progress", arg |-> "Transcribing..."],
              [kind |-> "error", arg |-> outcome.arg]>>
      [] outcome.kind = "load_error" ->
            <<[kind |-> "progress", arg |-> "Loading model..."]>>

\* the signals TranscriptionWorker.run emits for an outcome of the model
\* call, and whether it unlinks the audio file
worker_signals(outcome) ==
    CASE outcome.kind = "finished" ->
            <<[kind |-> "progress", arg |-> "Loading model..."],
              [kind |-> "progress", arg |-> "Transcribing..."],
              [kind |-> "finished", arg |-> outcome.arg]>>
      [] outcome.kind = "transcribe_error" ->
            <<[kind |-> "progress", arg |-> "Loading model..."],
              [kind |-> "progress", arg |-> "Transcribing..."],
              [kind |-> "error", arg |-> outcome.arg]>>
      [] outcome.kind = "load_error" ->
            <<[kind |-> "progress", arg |-> "Loading model..."],
              [kind |-> "error", arg |-> outcome.arg]>>

\* TranscriptionWorker.run in the worker thread: the signals are queued for
\* the main thread; the audio file is unlinked before finished is emitted
worker_run(w, outcome) ==
    [w EXCEPT !.mailbox = @ \o worker_signals(outcome),
              !.files = IF outcome.kind = "finished"
                        THEN @ \ {w.transcriber.path} ELSE @,
              !.transcriber.worker_done = TRUE]

\* Transcriber._cleanup_thread: a thread still running is waited for, so
\* its worker runs to the end; then _thread and _worker are dropped
cleanup_thread(w, outcome) ==
    LET waited == IF w.transcriber.thread /\ ~w.transcriber.worker_done
                  THEN worker_run(w, outcome) ELSE w
    IN [waited EXCEPT !.transcriber.thread = FALSE]

\* Transcriber.transcribe(audio_path)
transcribe(w, audio_path, outcome) ==
    LET cleaned == cleanup_thread(w, outcome) IN
    emit([cleaned EXCEPT !.transcriber.thread = TRUE,
                         !.transcriber.worker_done = FALSE,
                         !.transcriber.path = audio_path],
         <<"transcription_started">>)

\* DictationController._start_recording
start_recording(w, fault) ==
    LET begun == emit([w EXCEPT !.controller.error_message = "",
                                !.controller.transcribed_text = "",
                                !.controller.progress_message = "",
                                !.controller.state = RECORDING],
                      <<"stateChanged", "transcribedTextChanged",
                        "errorMessageChanged", "recorder.start">>)
        r == recorder_start(w.recorder, fault)
    IN IF r.raised
       THEN emit([begun EXCEPT !.recorder = r.rec,
                               !.controller.error_message =
                                   "Failed to start recording",
                               !.controller.state = ERROR],
                 <<"stateChanged", "errorMessageChanged">>)
       ELSE [begun EXCEPT !.recorder = r.rec]

\* DictationController._stop_recording; the next unused path names the
\* temporary file
stop_recording(w, fault, outcome) ==
    LET r == recorder_stop(w.recorder, fault)
        audio_path == w.transcriber.paths + 1
        stopped == emit([w EXCEPT !.recorder = r.rec], <<"recorder.stop">>)
    IN IF r.raised
       THEN emit([stopped EXCEPT !.controller.error_message =
                                     "Failed to stop recording",
                                 !.controller.state = ERROR],
                 <<"stateChanged", "errorMessageChanged">>)
       ELSE transcribe(
                emit([stopped EXCEPT !.files = @ \union {audio_path},
                                     !.transcriber.paths = audio_path,
                                     !.controller.state = TRANSCRIBING,
                                     !.controller.progress_message =
                                         "Starting transcription..."],
                     <<"stateChanged", "progressMessageChanged",
                       "transcriber.transcribe">>),
                audio_path, outcome)

\* Faulty variant of toggle: a toggle in ERROR starts a recording at once.
toggle_error_restarts(w, start_fault, stop_fault, outcome) ==
    IF w.controller.state = IDLE THEN start_recording(w, start_fault)
    ELSE IF w.controller.state = RECORDING
    THEN stop_recording(w, stop_fault, outcome)
    ELSE IF w.controller.state = COMPLETED
    THEN start_recording(_reset(w), start_fault)
    ELSE IF w.controller.state = ERROR
    THEN start_recording(_reset(w), start_fault)
    ELSE w

\* Faulty variant of toggle: a toggle in TRANSCRIBING resets the controller.
toggle_transcribing_resets(w, start_fault, stop_fault, outcome) ==
    IF w.controller.state = IDLE THEN start_recording(w, start_fault)
    ELSE IF w.controller.state = RECORDING
    THEN stop_recording(w, stop_fault, outcome)
    ELSE IF w.controller.state = COMPLETED
    THEN start_recording(_reset(w), start_fault)
    ELSE _reset(w)

\* DictationController.toggle
toggle(w, start_fault, stop_fault, outcome) ==
    IF w.controller.state = IDLE THEN start_recording(w, start_fault)
    ELSE IF w.controller.state = RECORDING
    THEN stop_recording(w, stop_fault, outcome)
    ELSE IF w.controller.state = COMPLETED
    THEN start_recording(_reset(w), start_fault)
    ELSE IF w.controller.state = ERROR THEN _reset(w)
    ELSE w

\* Faulty variant of copyToClipboard: an empty text is copied too.
copyToClipboard_empty_too(w) ==
    IF w.clipboard.present
    THEN emit([w EXCEPT !.clipboard.text = w.controller.transcribed_text],
              <<"clipboard.setText">>)
    ELSE w

\* DictationController.copyToClipboard
copyToClipboard(w) ==
    IF w.clipboard.present /\ w.controller.transcribed_text # ""
    THEN emit([w EXCEPT !.clipboard.text = w.controller.transcribed_text],
              <<"clipboard.setText">>)
    ELSE w

\* DictationController.reset
reset(w) == _reset(w)

\* DictationController._on_transcription_finished
on_transcription_finished(w, text) ==
    copyToClipboard(
        emit([w EXCEPT !.controller.transcribed_text = text,
                       !.controller.progress_message = "",
                       !.controller.state = COMPLETED],
             <<"stateChanged", "transcribedTextChanged",
               "progressMessageChanged">>))

\* DictationController._on_transcription_error
on_transcription_error(w, error) ==
    emit([w EXCEPT !.controller.error_message = error,
                   !.controller.progress_message = "",
                   !.controller.state = ERROR],
         <<"stateChanged", "errorMessageChanged", "progressMessageChanged">>)

\* DictationController._on_transcription_progress
on_transcription_progress(w, message) ==
    emit([w EXCEPT !.controller.progress_message = message],
         <<"progressMessageChanged">>)

\* Transcriber._on_finished
on_finished(w, text, outcome) ==
    cleanup_thread(
        on_transcription_finished(emit(w, <<"transcription_finished">>), text),
        outcome)

\* Transcriber._on_error
on_error(w, error, outcome) ==
    cleanup_thread(
        on_transcription_error(emit(w, <<"transcription_error">>), error),
        outcome)

-----------------------------------------------------------------------------
(* Inputs *)

RECURSIVE StringsUpTo(_, _)
StringsUpTo(chars, n) ==
    IF n = 0 THEN {<<>>}
    ELSE LET shorter == StringsUpTo(chars, n - 1)
         IN shorter \cup {Append(s, c) : s \in shorter, c \in chars}

\* two letters and a word separator
PathChars == {"a", "b", "_"}

\* one letter in both cases and a word separator
CaseChars == {"a", "A", "_"}

\* every separator, both cases and a character that is neither
BoundaryChars == {"a", "A", "/", "_", "-", ".", " ", "1"}

\* the characters special to LIKE and one letter
LikeChars == {"a", "%", "_", "\\"}

\* the worked examples of the documentation
Scenarios ==
    { [query |-> <<"a","b">>, target |-> <<"a","b">>],
      [query |-> <<"f","b">>, target |-> <<"f","o","o","_","b","a","r">>],
      [query |-> <<"x","y","z">>, target |-> <<"a","b">>],
      [query |-> <<>>, target |-> <<"a","n","y","t","h","i","n","g">>] }

Inputs ==
    {[query |-> q, target |-> t] :
        q \in StringsUpTo(PathChars, MaxQueryLen),
        t \in StringsUpTo(PathChars, MaxTargetLen)}
    \cup {[query |-> q, target |-> t] :
        q \in StringsUpTo(CaseChars, MaxQueryLen),
        t \in StringsUpTo(CaseChars, MaxTargetLen)}
    \cup {[query |-> q, target |-> t] :
        q \in StringsUpTo(LikeChars, MaxLikeLen),
        t \in StringsUpTo(LikeChars, MaxLikeLen)}
    \cup {[query |-> q, target |-> t] :
        q \in StringsUpTo({"a"}, 1),
        t \in StringsUpTo(BoundaryChars, MaxBoundaryLen)}
    \cup Scenarios

-----------------------------------------------------------------------------
(* State machine: the functions applied to one query and one target.  A     *)
(* return value is <<>> before the call and <<value>> after it.  A behaviour *)
(* is one use of the module on the chosen input: the two matchers in either *)
(* order, the boundary test, or the prefilter of search_notes.              *)

\* the variables of rank_matches and search_notes where neither is called
RankUnused ==
    items = <<>> /\ limit = 0 /\ rank_ret = <<>> /\ perm_ret = <<>>

SearchUnused ==
    /\ db = {} /\ candidate_limit = 0 /\ fail_at = "none"
    /\ db_log = <<>> /\ search_ret = <<>>

\* the dictation controller as constructed, without a clipboard
CtlUnused ==
    /\ controller = [state |-> "IDLE", transcribed_text |-> "",
                     error_message |-> "", progress_message |-> ""]
    /\ clipboard = [present |-> FALSE, text |-> ""]
    /\ recorder = [is_recording |-> FALSE, stream |-> "none", open_streams |-> 0]
    /\ transcriber = [thread |-> FALSE, worker_done |-> FALSE, path |-> 0,
                      paths |-> 0]
    /\ files = {}
    /\ mailbox = <<>>
    /\ effects = <<>>
    /\ last_call = [name |-> "__init__", from |-> "IDLE", arg |-> ""]
    /\ calls = 0
    /\ ended = 0

\* NoteSearchModel as constructed
NsmUnused ==
    /\ _db_path = <<>> /\ _results = <<>>
    /\ qt_calls = <<>> /\ search_raised = <<>> /\ results_before = <<>>
    /\ searches = 0

\* the variables of the dictation IPC where it is not used
IpcUnused ==
    /\ sock_path = FALSE /\ listening = FALSE /\ command = <<>>
    /\ client_pc = "idle" /\ client_ret = <<>> /\ conn = "none"
    /\ inbuf = <<>> /\ reply = <<>> /\ received = <<>>
    /\ emitted = <<>> /\ handled = <<>>
    /\ visible = FALSE /\ quit_called = FALSE

Init ==
    /\ \E in \in Inputs : query = in.query /\ target = in.target
    /\ match_ret = <<>>
    /\ score_ret = <<>>
    /\ boundary_ret = <<>>
    /\ pattern = <<>>
    /\ candidate = <<>>
    /\ RankUnused
    /\ SearchUnused
    /\ IpcUnused
    /\ CtlUnused
    /\ NsmUnused

\* a call of fuzzy_match(query, target)
CallFuzzyMatch ==
    /\ match_ret = <<>> /\ boundary_ret = <<>> /\ pattern = <<>>
    /\ match_ret' = <<fuzzy_match(query, target)>>
    /\ UNCHANGED <<query, target, score_ret, boundary_ret, pattern, candidate>>
    /\ UNCHANGED <<rank_vars, search_vars, ipc_vars, ctl_vars, nsm_vars>>

\* a call of fuzzy_score(query, target)
CallFuzzyScore ==
    /\ score_ret = <<>> /\ boundary_ret = <<>> /\ pattern = <<>>
    /\ score_ret' = <<fuzzy_score(query, target)>>
    /\ UNCHANGED <<query, target, match_ret, boundary_ret, pattern, candidate>>
    /\ UNCHANGED <<rank_vars, search_vars, ipc_vars, ctl_vars, nsm_vars>>

\* _is_word_boundary(target, index) at every index of the target
CallIsWordBoundary ==
    /\ boundary_ret = <<>> /\ match_ret = <<>> /\ score_ret = <<>> /\ pattern = <<>>
    /\ boundary_ret' =
          <<[index \in 0..(Len(target) - 1) |-> is_word_boundary(target, index)]>>
    /\ UNCHANGED <<query, target, match_ret, score_ret, pattern, candidate>>
    /\ UNCHANGED <<rank_vars, search_vars, ipc_vars, ctl_vars, nsm_vars>>

\* search_notes, phase 1: the pattern is built and the row whose full_path
\* is target is selected or not by the WHERE clause
Prefilter ==
    /\ pattern = <<>> /\ match_ret = <<>> /\ score_ret = <<>> /\ boundary_ret = <<>>
    /\ LET search_pattern == build_sql_pattern(query) IN
         /\ pattern' = <<search_pattern>>
         /\ candidate' = <<sql_like(sql_lower(target), search_pattern)>>
    /\ UNCHANGED <<query, target, match_ret, score_ret, boundary_ret>>
    /\ UNCHANGED <<rank_vars, search_vars, ipc_vars, ctl_vars, nsm_vars>>

Next ==
    \/ CallFuzzyMatch
    \/ CallFuzzyScore
    \/ CallIsWordBoundary
    \/ Prefilter

Spec == Init /\ [][Next]_vars

-----------------------------------------------------------------------------
(* rank_matches applied to a list of notes *)

\* the full_path values of the ranked notes
RankKeys == {<<"a">>, <<"b">>, <<"B">>, <<"a", "b">>, <<"b", "a">>}

\* the notes: one per full_path, and a second note at full_path "b"
RankItems ==
    {[id |-> 1, full_path |-> k] : k \in RankKeys}
    \cup {[id |-> 2, full_path |-> <<"b">>]}

\* the lists of up to n distinct notes
RECURSIVE ItemLists(_)
ItemLists(n) ==
    IF n = 0 THEN {<<>>}
    ELSE LET shorter == ItemLists(n - 1)
         IN shorter \cup
            UNION {{Append(l, x) :
                       x \in {y \in RankItems :
                                 \A i \in 1..Len(l) : l[i] # y}} :
                   l \in {m \in shorter : Len(m) = n - 1}}

RankQueries == {<<>>, <<"a">>, <<"b">>}

\* the lists with the same elements as its, in any order
PermutationsOf(its) ==
    {[k \in 1..Len(its) |-> its[f[k]]] :
        f \in {g \in [1..Len(its) -> 1..Len(its)] :
                  \A i, j \in 1..Len(its) : i # j => g[i] # g[j]}}

InitRank ==
    /\ query \in RankQueries
    /\ target = <<>>
    /\ match_ret = <<>> /\ score_ret = <<>> /\ boundary_ret = <<>>
    /\ pattern = <<>> /\ candidate = <<>>
    /\ items \in ItemLists(MaxItems)
    /\ limit \in (0 - 1)..MaxItems
    /\ rank_ret = <<>>
    /\ perm_ret = <<>>
    /\ SearchUnused
    /\ IpcUnused
    /\ CtlUnused
    /\ NsmUnused

\* a call of rank_matches(query, items, key, limit)
CallRankMatches ==
    /\ rank_ret = <<>>
    /\ rank_ret' = <<rank_matches(query, items, limit)>>
    /\ UNCHANGED <<query, target, match_ret, score_ret, boundary_ret, pattern,
                   candidate, items, limit, perm_ret, search_vars,
                   ipc_vars, ctl_vars, nsm_vars>>

\* a later call of rank_matches on the same items in another order
CallRankMatchesPermuted ==
    /\ rank_ret # <<>>
    /\ perm_ret = <<>>
    /\ \E permuted \in PermutationsOf(items) :
          perm_ret' = <<[items |-> permuted,
                         ret |-> rank_matches(query, permuted, limit)]>>
    /\ UNCHANGED <<query, target, match_ret, score_ret, boundary_ret, pattern,
                   candidate, items, limit, rank_ret, search_vars,
                   ipc_vars, ctl_vars, nsm_vars>>

NextRank ==
    \/ CallRankMatches
    \/ CallRankMatchesPermuted

SpecRank == InitRank /\ [][NextRank]_vars

-----------------------------------------------------------------------------
(* search_notes applied to a database of notes *)

\* the databases: up to MaxItems of the notes
Databases == {rows \in SUBSET RankItems : Cardinality(rows) <= MaxItems}

\* blank queries (empty, whitespace only) and queries that are not blank
SearchQueries ==
    {<<>>, <<" ">>, <<"\t", " ">>, <<"a">>, <<"b">>, <<" ", "b">>}

InitSearch ==
    /\ query \in SearchQueries
    /\ target = <<>>
    /\ match_ret = <<>> /\ score_ret = <<>> /\ boundary_ret = <<>>
    /\ pattern = <<>> /\ candidate = <<>>
    /\ items = <<>> /\ rank_ret = <<>> /\ perm_ret = <<>>
    /\ limit \in (0 - 1)..MaxItems
    /\ db \in Databases
    /\ candidate_limit \in (0 - 1)..MaxItems
    /\ fail_at \in {"none", "connect", "execute"}
    /\ db_log = <<>>
    /\ search_ret = <<>>
    /\ IpcUnused
    /\ CtlUnused
    /\ NsmUnused

\* a call of search_notes(db_path, query, limit, candidate_limit)
SearchNotes ==
    /\ search_ret = <<>>
    /\ \E fetched \in sql_select(db, build_sql_pattern(query), candidate_limit) :
          LET r == search_notes(query, limit, fail_at, fetched) IN
          /\ search_ret' = <<r.ret>>
          /\ db_log' = r.log
    /\ UNCHANGED <<query, target, match_ret, score_ret, boundary_ret, pattern,
                   candidate, rank_vars, db, candidate_limit, fail_at,
                   ipc_vars, ctl_vars, nsm_vars>>

NextSearch == SearchNotes

SpecSearch == InitSearch /\ [][NextSearch]_vars

-----------------------------------------------------------------------------
(* search_notes on notes and queries that hold the LIKE character "_" *)

\* full_path values with and without "_"
PhaseKeys == {<<"a">>, <<"a", "b">>, <<"a", "_", "b">>, <<"_">>}

PhaseItems == {[id |-> 1, full_path |-> k] : k \in PhaseKeys}

PhaseDatabases == {rows \in SUBSET PhaseItems : Cardinality(rows) <= MaxItems}

\* a blank query, plain queries and the query "_"
PhaseQueries == {<<" ">>, <<"a">>, <<"b">>, <<"_">>}

InitTwoPhase ==
    /\ query \in PhaseQueries
    /\ target = <<>>
    /\ match_ret = <<>> /\ score_ret = <<>> /\ boundary_ret = <<>>
    /\ pattern = <<>> /\ candidate = <<>>
    /\ items = <<>> /\ rank_ret = <<>> /\ perm_ret = <<>>
    /\ limit \in (0 - 1)..MaxItems
    /\ db \in PhaseDatabases
    /\ candidate_limit \in (0 - 1)..MaxItems
    /\ fail_at \in {"none", "connect", "execute"}
    /\ db_log = <<>>
    /\ search_ret = <<>>
    /\ IpcUnused
    /\ CtlUnused
    /\ NsmUnused

SpecTwoPhase == InitTwoPhase /\ [][NextSearch]_vars

-----------------------------------------------------------------------------
(* NoteSearchModel over a database of notes *)

\* the searches one run makes
MaxSearches == 2

\* the path handed to set_db_path
DB_PATH == "notes.db"

InitModel ==
    /\ query = <<>> /\ target = <<>>
    /\ match_ret = <<>> /\ score_ret = <<>> /\ boundary_ret = <<>>
    /\ pattern = <<>> /\ candidate = <<>>
    /\ RankUnused
    /\ db \in Databases
    /\ candidate_limit = DEFAULT_CANDIDATE_LIMIT
    /\ fail_at = "none"
    /\ db_log = <<>>
    /\ search_ret = <<>>
    /\ IpcUnused
    /\ CtlUnused
    /\ NsmUnused

model_rest_vars == <<target, match_ret, score_ret, boundary_ret, pattern,
                     candidate, rank_vars, db, candidate_limit, ipc_vars,
                     ctl_vars>>

\* set_db_path(path) is called
SetDbPath ==
    /\ _db_path = <<>>
    /\ _db_path' = set_db_path([_db_path |-> _db_path, _results |-> _results],
                               DB_PATH)._db_path
    /\ UNCHANGED <<query, fail_at, db_log, search_ret, _results, qt_calls,
                   search_raised, results_before, searches, model_rest_vars>>

\* the slot search(query) is called; the storage may fail during it
ModelSearch ==
    /\ searches < MaxSearches
    /\ searches' = searches + 1
    /\ \E q \in SearchQueries, fault \in {"none", "connect", "execute"} :
       \E fetched \in sql_select(db, build_sql_pattern(q),
                                 DEFAULT_CANDIDATE_LIMIT) :
          LET r == search_notes(q, DEFAULT_LIMIT, fault, fetched)
              s == search([_db_path |-> _db_path, _results |-> _results], r)
          IN
          /\ query' = q
          /\ fail_at' = fault
          /\ db_log' = IF _db_path = <<>> THEN <<>> ELSE r.log
          /\ search_ret' = IF _db_path = <<>> THEN <<>> ELSE <<r.ret>>
          /\ results_before' = _results
          /\ _results' = s.self._results
          /\ qt_calls' = s.qt_calls
          /\ search_raised' = <<s.raised>>
    /\ UNCHANGED <<_db_path, model_rest_vars>>

NextModel ==
    \/ SetDbPath
    \/ ModelSearch

SpecModel == InitModel /\ [][NextModel]_vars

-----------------------------------------------------------------------------
(* the dictation IPC: one server, one send_command call of a client *)

\* n spaces
Pad(n) == [k \in 1..n |-> " "]

\* the commands sent: the protocol's commands in several spellings, with
\* surrounding whitespace, unrecognised ones, one that with its newline just
\* fits the server's read and one that does not
Commands ==
    {<<"T", "O", "G", "G", "L", "E">>, <<"t", "o", "g", "g", "l", "e">>, <<"S", "h", "o", "w">>,
     <<" ">> \o <<"h", "i", "d", "e">> \o <<" ">>, <<"Q", "U", "I", "T">>, <<"s", "t", "o", "p">>, <<"P", "I", "N", "G">>, <<"p", "i", "n", "g">>,
     <<>>, <<"T", "O", "G", "G">>, <<"S", "H", "O", "W", "S">>,
     Pad(RECV_SIZE - 7) \o <<"T", "O", "G", "G", "L", "E">>,
     Pad(RECV_SIZE - 4) \o <<"T", "O", "G", "G", "L", "E">>}

InitIPC ==
    /\ query = <<>> /\ target = <<>>
    /\ match_ret = <<>> /\ score_ret = <<>> /\ boundary_ret = <<>>
    /\ pattern = <<>> /\ candidate = <<>>
    /\ RankUnused
    /\ SearchUnused
    /\ sock_path \in BOOLEAN
    /\ listening = FALSE
    /\ command \in Commands
    /\ client_pc = "idle" /\ client_ret = <<>> /\ conn = "none"
    /\ inbuf = <<>> /\ reply = <<>> /\ received = <<>>
    /\ emitted = <<>> /\ handled = <<>>
    /\ visible \in BOOLEAN
    /\ quit_called = FALSE
    /\ CtlUnused
    /\ NsmUnused

client_vars == <<command, client_pc, client_ret>>
app_vars == <<received, emitted, handled, visible, quit_called>>
rest_vars == <<query, target, match_ret, score_ret, boundary_ret, pattern,
               candidate, rank_vars, search_vars, ctl_vars, nsm_vars>>

\* IPCServer.start(): a socket file left behind is removed, the socket is
\* bound and listens
ServerStart ==
    /\ ~listening
    /\ listening' = TRUE
    /\ sock_path' = TRUE
    /\ UNCHANGED <<client_vars, conn, inbuf, reply, app_vars, rest_vars>>

\* IPCServer.stop(): the socket is closed, which ends a connection not yet
\* accepted, and the socket file is removed
ServerStop ==
    /\ listening
    /\ listening' = FALSE
    /\ sock_path' = FALSE
    /\ conn' = IF conn \in {"pending", "abandoned"} THEN "closed" ELSE conn
    /\ UNCHANGED <<client_vars, inbuf, reply, app_vars, rest_vars>>

\* send_command up to connect: False when the socket file does not exist or
\* nobody listens on it
ClientConnect ==
    /\ client_pc = "idle"
    /\ IF ~sock_path
       THEN client_pc' = "no_path" /\ client_ret' = <<FALSE>> /\ conn' = conn
       ELSE IF ~listening
       THEN client_pc' = "refused" /\ client_ret' = <<FALSE>> /\ conn' = conn
       ELSE client_pc' = "connected" /\ client_ret' = client_ret
            /\ conn' = "pending"
    /\ UNCHANGED <<sock_path, listening, command, inbuf, reply, app_vars,
                   rest_vars>>

\* send_command: sendall(command + "\n"), which raises when the server has
\* closed the connection
ClientSend ==
    /\ client_pc = "connected"
    /\ IF conn = "closed"
       THEN client_pc' = "broken_pipe" /\ client_ret' = <<FALSE>>
            /\ inbuf' = inbuf
       ELSE client_pc' = "sent" /\ client_ret' = client_ret
            /\ inbuf' = <<command \o <<"\n">>>>
    /\ UNCHANGED <<sock_path, listening, command, conn, reply, app_vars,
                   rest_vars>>

\* send_command: recv returns the reply, or nothing when the server closed
\* the connection without one; the result is response == "OK"
ClientRecv ==
    /\ client_pc = "sent"
    /\ reply # <<>> \/ conn = "closed"
    /\ LET response == IF reply # <<>> THEN strip(recv(reply[1], RECV_SIZE))
                       ELSE <<>>
       IN /\ client_ret' = <<response = <<"O", "K">>>>
          /\ client_pc' = IF reply # <<>> THEN "replied" ELSE "eof"
    /\ UNCHANGED <<sock_path, listening, command, conn, inbuf, reply, app_vars,
                   rest_vars>>

\* send_command: recv times out before the server has handled the
\* connection; the client closes its end
ClientTimeout ==
    /\ client_pc = "sent"
    /\ conn = "pending"
    /\ client_pc' = "timeout"
    /\ client_ret' = <<FALSE>>
    /\ conn' = "abandoned"
    /\ UNCHANGED <<sock_path, listening, command, inbuf, reply, app_vars,
                   rest_vars>>

\* IPCServer._handle_connection: accept, recv(64), strip, _process_command
\* with the connected slots run by each emit, then sendall(b"OK\n"); a recv
\* that times out or a sendall to a client that is gone ends the handler
HandleConnection ==
    /\ listening
    /\ conn \in {"pending", "abandoned"}
    /\ IF inbuf = <<>>
       THEN /\ conn' = "closed"
            /\ UNCHANGED <<reply, app_vars>>
       ELSE LET raw == recv(inbuf[1], RECV_SIZE)
                signals == process_command(strip(raw))
                slots == [k \in 1..Len(signals) |-> slot_of(signals[k])]
            IN /\ received' = <<raw>>
               /\ emitted' = emitted \o signals
               /\ handled' = handled \o slots
               /\ visible' = IF slots = <<>> THEN visible
                             ELSE visible_after(slots[1], visible)
               /\ quit_called' = (quit_called \/ slots = <<"_quit_app">>)
               /\ reply' = IF conn = "pending" THEN <<OK_REPLY>> ELSE reply
               /\ conn' = "closed"
    /\ UNCHANGED <<sock_path, listening, client_vars, inbuf, rest_vars>>

NextIPC ==
    \/ ServerStart
    \/ ServerStop
    \/ ClientConnect
    \/ ClientSend
    \/ ClientRecv
    \/ ClientTimeout
    \/ HandleConnection

SpecIPC == InitIPC /\ [][NextIPC]_vars

-----------------------------------------------------------------------------
(* the dictation controller driven by its slots, the worker thread and the  *)
(* main thread's event loop                                                 *)

\* the objects the handlers work on, with nothing done yet
World ==
    [controller |-> controller, clipboard |-> clipboard, recorder |-> recorder,
     transcriber |-> transcriber, files |-> files, mailbox |-> mailbox,
     effects |-> <<>>]

\* the handler name ran with argument arg from the present state and left
\* the objects as in w
Ran(name, arg, w) ==
    /\ controller' = w.controller
    /\ clipboard' = w.clipboard
    /\ recorder' = w.recorder
    /\ transcriber' = w.transcriber
    /\ files' = w.files
    /\ mailbox' = w.mailbox
    /\ effects' = w.effects
    /\ last_call' = [name |-> name, from |-> controller.state, arg |-> arg]
    /\ ended' = ended + Cardinality({k \in 1..Len(w.effects) :
                          w.effects[k] \in {"transcription_finished",
                                            "transcription_error"}})

\* how the recorder can fail
StartFaults == {"none", "device", "stream"}
StopFaults == {"none", "stream", "file"}

\* how the model call of a worker can end
Outcomes ==
    {[kind |-> "finished", arg |-> "hello"],
     [kind |-> "finished", arg |-> ""],
     [kind |-> "transcribe_error", arg |-> "bad audio"],
     [kind |-> "load_error", arg |-> "no model"]}

InitCtl ==
    /\ query = <<>> /\ target = <<>>
    /\ match_ret = <<>> /\ score_ret = <<>> /\ boundary_ret = <<>>
    /\ pattern = <<>> /\ candidate = <<>>
    /\ RankUnused
    /\ SearchUnused
    /\ IpcUnused
    /\ NsmUnused
    /\ controller = [state |-> IDLE, transcribed_text |-> "",
                     error_message |-> "", progress_message |-> ""]
    /\ clipboard \in {[present |-> FALSE, text |-> ""],
                      [present |-> TRUE, text |-> "old"]}
    /\ recorder = [is_recording |-> FALSE, stream |-> "none", open_streams |-> 0]
    /\ transcriber = [thread |-> FALSE, worker_done |-> FALSE, path |-> 0,
                      paths |-> 0]
    /\ files = {}
    /\ mailbox = <<>>
    /\ effects = <<>>
    /\ last_call = [name |-> "__init__", from |-> IDLE, arg |-> ""]
    /\ calls = 0
    /\ ended = 0

other_vars == <<query, target, match_ret, score_ret, boundary_ret, pattern,
                candidate, rank_vars, search_vars, ipc_vars, nsm_vars>>

\* the slot toggle() is called
Toggle ==
    /\ calls < MaxCalls
    /\ calls' = calls + 1
    /\ \E start_fault \in StartFaults, stop_fault \in StopFaults,
          outcome \in Outcomes :
          Ran("toggle", "", toggle(World, start_fault, stop_fault, outcome))
    /\ UNCHANGED other_vars

\* the slot reset() is called
Reset ==
    /\ calls < MaxCalls
    /\ calls' = calls + 1
    /\ Ran("reset", "", reset(World))
    /\ UNCHANGED other_vars

\* the slot copyToClipboard() is called
CopyToClipboard ==
    /\ calls < MaxCalls
    /\ calls' = calls + 1
    /\ Ran("copyToClipboard", "", copyToClipboard(World))
    /\ UNCHANGED other_vars

\* the worker thread runs TranscriptionWorker.run to its end
WorkerRun ==
    /\ transcriber.thread /\ ~transcriber.worker_done
    /\ \E outcome \in Outcomes :
          LET w == worker_run(World, outcome) IN
          /\ transcriber' = w.transcriber
          /\ files' = w.files
          /\ mailbox' = w.mailbox
    /\ UNCHANGED <<controller, clipboard, recorder, effects, last_call, calls,
                   ended, other_vars>>

\* the main thread's event loop delivers the worker's next queued signal to
\* the slot of the Transcriber connected to it
Deliver ==
    /\ mailbox # <<>>
    /\ LET event == Head(mailbox)
           w == [World EXCEPT !.mailbox = Tail(mailbox)]
       IN CASE event.kind = "progress" ->
                  Ran("_on_transcription_progress", event.arg,
                      on_transcription_progress(
                          emit(w, <<"transcription_progress">>), event.arg))
            [] event.kind = "finished" ->
                  \E outcome \in Outcomes :
                      Ran("_on_transcription_finished", event.arg,
                          on_finished(w, event.arg, outcome))
            [] event.kind = "error" ->
                  \E outcome \in Outcomes :
                      Ran("_on_transcription_error", event.arg,
                          on_error(w, event.arg, outcome))
    /\ UNCHANGED <<calls, other_vars>>

NextCtl ==
    \/ Toggle
    \/ Reset
    \/ CopyToClipboard
    \/ WorkerRun
    \/ Deliver

SpecCtl == InitCtl /\ [][NextCtl]_vars

\* the same with the worker thread scheduled and the main thread's event
\* loop running
SpecCtlFair == SpecCtl /\ WF_vars(WorkerRun) /\ WF_vars(Deliver)

-----------------------------------------------------------------------------
(* Vocabulary of the properties *)

\* q is a case-insensitive subsequence of t: some strictly increasing choice
\* of 0-based indices of t spells q up to case
IsSubsequence(q, t) ==
    \E f \in [1..Len(q) -> 0..(Len(t) - 1)] :
        /\ \A k \in 1..(Len(q) - 1) : f[k] < f[k + 1]
        /\ \A k \in 1..Len(q) : lower_char(At(t, f[k])) = lower_char(q[k])

\* the word-boundary rule as the documentation states it
IsBoundaryPosition(t, i) ==
    \/ i = 0
    \/ i > 0 /\ At(t, i - 1) \in {"/", "_", "-", ".", " "}
    \/ i > 0 /\ islower(At(t, i - 1)) /\ isupper(At(t, i))

\* the documented contribution of the k-th matched position (k from 1)
Contribution(t, pos, k) ==
    (IF k = 1 /\ pos[k] = 0 THEN 16 ELSE 0)
    + (IF IsBoundaryPosition(t, pos[k]) THEN 32 ELSE 0)
    + (IF k > 1
       THEN (IF pos[k] - pos[k - 1] - 1 = 0
             THEN 16
             ELSE (pos[k] - pos[k - 1] - 1) * (-3))
       ELSE 0)

\* the sum of the contributions of the first k matched positions
RECURSIVE ContributionSum(_, _, _)
ContributionSum(t, pos, k) ==
    IF k = 0 THEN 0
    ELSE ContributionSum(t, pos, k - 1) + Contribution(t, pos, k)

MatchCalled == match_ret # <<>>
ScoreCalled == score_ret # <<>>

-----------------------------------------------------------------------------
\* C1: for a non-empty query that is a case-insensitive subsequence of the
\* target, fuzzy_match returns a match whose positions are strictly
\* increasing indices into the target, as many as the query has characters,
\* each pointing at a target character equal to its query character up to
\* case.
C1_MatchPositionsSpellQuery ==
    (MatchCalled /\ query # <<>> /\ IsSubsequence(query, target)) =>
        LET r == match_ret[1] IN
        /\ r.matched
        /\ Len(r.positions) = Len(query)
        /\ \A k \in 1..Len(r.positions) : r.positions[k] \in 0..(Len(target) - 1)
        /\ \A k \in 1..(Len(r.positions) - 1) : r.positions[k] < r.positions[k + 1]
        /\ \A k \in 1..Len(r.positions) :
              lower_char(At(target, r.positions[k])) = lower_char(query[k])

\* C1 witness: a two-character query matched with a skipped character
\* between the positions and a target character that differs in case.
C1_Witness ==
    /\ MatchCalled /\ Len(query) = 2 /\ IsSubsequence(query, target)
    /\ match_ret[1].matched
    /\ match_ret[1].positions[2] > match_ret[1].positions[1] + 1
    /\ \E k \in 1..2 : At(target, match_ret[1].positions[k]) # query[k]

\* C2: fuzzy_match returns None exactly when the query is not a
\* case-insensitive subsequence of the target, and a returned match is never
\* partial: it has a position for every query character.
C2_NoneIffNotSubsequence ==
    MatchCalled =>
        LET r == match_ret[1] IN
        /\ (r = None) <=> ~IsSubsequence(query, target)
        /\ r.matched <=> IsSubsequence(query, target)
        /\ r.matched => Len(r.positions) = Len(query)

\* C2 witness: the first query character is found, the second is not, and
\* the result is None.
C2_Witness ==
    /\ MatchCalled /\ Len(query) = 2 /\ Len(target) >= 2
    /\ IsSubsequence(<<query[1]>>, target)
    /\ ~IsSubsequence(query, target)
    /\ match_ret[1] = None

\* C3: fuzzy_score and fuzzy_match agree: both report no match together,
\* and when there is a match the scores are equal.
C3_ScoreEqualsMatchScore ==
    (MatchCalled /\ ScoreCalled) =>
        /\ score_ret[1].matched <=> match_ret[1].matched
        /\ match_ret[1].matched => score_ret[1].score = match_ret[1].score

\* C3 witness: both functions were called on a match that starts at index 0
\* and skips characters.
C3_Witness ==
    /\ MatchCalled /\ ScoreCalled
    /\ match_ret[1].matched /\ score_ret[1].matched
    /\ Len(query) = 2
    /\ match_ret[1].positions[1] = 0
    /\ match_ret[1].positions[2] > 1

\* C4: the score of a match is the sum over its positions of +16 for the
\* first query character at index 0, +32 at a word boundary and, after the
\* first matched character, +16 for gap 0 or gap * (-3) otherwise; the sum is
\* not clamped.
C4_ScoreIsSumOfContributions ==
    (MatchCalled /\ match_ret[1].matched) =>
        match_ret[1].score =
            ContributionSum(target, match_ret[1].positions,
                            Len(match_ret[1].positions))

\* C4 witness: a match with a negative score.
C4_Witness ==
    /\ MatchCalled /\ match_ret[1].matched
    /\ match_ret[1].score < 0
    /\ \E k \in 2..Len(match_ret[1].positions) :
          match_ret[1].positions[k] - match_ret[1].positions[k - 1] - 1 >= 1

C6_EmptyQueryMatchesWithZero ==
    /\ (MatchCalled /\ query = <<>>) =>
          /\ match_ret[1].matched
          /\ match_ret[1].score = 0
          /\ match_ret[1].positions = <<>>
    /\ (ScoreCalled /\ query = <<>>) =>
          /\ score_ret[1].matched
          /\ score_ret[1].score = 0

\* C6 witness: both functions were called with the empty query on the empty
\* target.
C6_Witness ==
    /\ MatchCalled /\ ScoreCalled
    /\ query = <<>> /\ target = <<>>

\* C7: when the query is longer than the target, fuzzy_match and fuzzy_score
\* both return no match.
C7_LongerQueryNoMatch ==
    /\ (MatchCalled /\ Len(query) > Len(target)) => match_ret[1] = None
    /\ (ScoreCalled /\ Len(query) > Len(target)) => score_ret[1] = NoScore

\* C7 witness: both functions were called with a query longer than a
\* non-empty target whose first character is the query's first character.
C7_Witness ==
    /\ MatchCalled /\ ScoreCalled
    /\ Len(query) > Len(target) /\ Len(target) >= 1
    /\ lower_char(target[1]) = lower_char(query[1])

\* C8: fuzzy_match("fb", "foo_bar") is score 71 at positions (0, 4): the
\* character after '_' gets the word-boundary bonus and the penalty for the
\* 3 skipped characters.
C8_FooBarScenario ==
    (/\ MatchCalled
     /\ query = <<"f", "b">>
     /\ target = <<"f", "o", "o", "_", "b", "a", "r">>) =>
        /\ match_ret[1].matched
        /\ match_ret[1].score = 71
        /\ match_ret[1].positions = <<0, 4>>

\* C8 witness: fuzzy_match was called on "fb" and "foo_bar".
C8_Witness ==
    /\ MatchCalled
    /\ query = <<"f", "b">>
    /\ target = <<"f", "o", "o", "_", "b", "a", "r">>

\* C9: _is_word_boundary(target, i) is true exactly at i = 0, after one of
\* '/', '_', '-', '.', ' ', and at an upper-case character that follows a
\* lower-case one; the test reads the target in its original casing, also
\* where fuzzy_match applies it to a matched position.
C9_WordBoundaryRule ==
    /\ boundary_ret # <<>> =>
          \A i \in 0..(Len(target) - 1) :
              boundary_ret[1][i] <=> IsBoundaryPosition(target, i)
    /\ (MatchCalled /\ Len(query) = 1 /\ match_ret[1].matched
        /\ match_ret[1].positions # <<0>>) =>
          (match_ret[1].score =
              IF IsBoundaryPosition(target, match_ret[1].positions[1])
              THEN 32 ELSE 0)

\* C9 witness: the boundary test was applied to a target with a camelCase
\* transition, which the lower-cased copy does not have.
C9_Witness ==
    /\ boundary_ret # <<>>
    /\ \E i \in 1..(Len(target) - 1) :
          /\ islower(At(target, i - 1)) /\ isupper(At(target, i))
          /\ boundary_ret[1][i]
          /\ ~IsBoundaryPosition(lower(target), i)

\* C10: the prefilter is a superset filter: whenever the query is a
\* case-insensitive subsequence of the target, the lower-cased target
\* satisfies LIKE build_sql_pattern(query) ESCAPE '\', also for queries that
\* contain '%', '_' or '\'.
C10_PrefilterAdmitsEveryMatch ==
    (candidate # <<>> /\ IsSubsequence(query, target)) => candidate[1]

\* C11: in the pattern of build_sql_pattern no two literal characters are
\* adjacent without a '%' between them (two adjacent non-'%' characters are
\* only ever the escape marker and the character it escapes), every '_' of
\* the pattern (each comes from the query) is immediately prefixed by '\',
\* and the pattern has an escaped '%' for every '%' of the query.
C11_PatternSeparatesAndEscapes ==
    pattern # <<>> =>
        LET p == pattern[1] IN
        /\ \A i \in 1..(Len(p) - 1) :
              (p[i] # "%" /\ p[i + 1] # "%") => p[i] = "\\"
        /\ \A i \in 1..Len(p) :
              p[i] = "_" => (i > 1 /\ p[i - 1] = "\\")
        /\ Cardinality({i \in 2..Len(p) : p[i] = "%" /\ p[i - 1] = "\\"})
              >= Cardinality({k \in 1..Len(query) : query[k] = "%"})

\* C12: build_sql_pattern("") is "%", and for a query of n >= 1 characters,
\* none of them '%' or '_', the pattern is '%' followed by each lower-cased
\* query character followed by '%', of length 2n+1.
C12_PlainQueryPattern ==
    (pattern # <<>> /\ \A k \in 1..Len(query) : query[k] \notin {"%", "_"}) =>
        LET p == pattern[1] IN
        /\ Len(p) = 2 * Len(query) + 1
        /\ \A i \in 1..Len(p) : (i % 2 = 1) => p[i] = "%"
        /\ \A k \in 1..Len(query) : p[2 * k] = lower_char(query[k])
        /\ (query = <<>>) => p = <<"%">>
        /\ (query = <<"a", "b">>) => p = <<"%", "a", "%", "b", "%">>

\* C12 witness: the pattern of a two-character query with an upper-case
\* letter was built.
C12_Witness ==
    /\ pattern # <<>>
    /\ Len(query) = 2
    /\ \A k \in 1..2 : query[k] \notin {"%", "_"}
    /\ \E k \in 1..2 : isupper(query[k])
    /\ Len(pattern[1]) = 5

-----------------------------------------------------------------------------
(* Vocabulary of the ranking properties *)

RankCalled == rank_ret # <<>>
PermCalled == perm_ret # <<>>

Min(a, b) == IF a < b THEN a ELSE b

\* a <= b in case-sensitive lexicographic order: a is a prefix of b, or the
\* first character in which they differ has the smaller code point in a
LexLeq(a, b) ==
    \/ Len(a) <= Len(b) /\ \A i \in 1..Len(a) : a[i] = b[i]
    \/ \E i \in 1..Min(Len(a), Len(b)) :
          /\ \A j \in 1..(i - 1) : a[j] = b[j]
          /\ a[i] # b[i]
          /\ ord(a[i]) < ord(b[i])

\* the notes of items whose full_path the query matches
MatchingItems(q, its) ==
    {its[i] : i \in {j \in 1..Len(its) : IsSubsequence(q, its[j].full_path)}}

\* x with score sx sorts strictly before y with score sy in the ranking
RanksBefore(x, sx, y, sy) ==
    \/ sx > sy
    \/ sx = sy /\ x.full_path # y.full_path /\ LexLeq(x.full_path, y.full_path)

\* C13: rank_matches with an empty query and limit >= 0 returns exactly
\* min(limit, len(items)) pairs: the first items in input order, each with
\* score 0, and fuzzy_score is not run.
C13_EmptyQueryBrowse ==
    (RankCalled /\ query = <<>> /\ limit >= 0) =>
        LET r == rank_ret[1] IN
        /\ Len(r.value) = Min(limit, Len(items))
        /\ \A k \in 1..Len(r.value) :
              r.value[k] = [item |-> items[k], score |-> 0]
        /\ r.score_calls = 0

\* C13 witness: the empty query on three items with limit 2, items not in
\* full_path order.
C13_Witness ==
    /\ RankCalled /\ query = <<>> /\ limit = 2 /\ Len(items) = 3
    /\ ~LexLeq(items[1].full_path, items[2].full_path)
    /\ Len(rank_ret[1].value) = 2

\* C14: for a non-empty query the output of rank_matches is sorted: of two
\* adjacent results the first has the higher score, or the same score and a
\* key that is <= the second's in case-sensitive lexicographic order.
C14_OutputSorted ==
    (RankCalled /\ query # <<>>) =>
        LET v == rank_ret[1].value IN
        \A k \in 1..(Len(v) - 1) :
            \/ v[k].score > v[k + 1].score
            \/ /\ v[k].score = v[k + 1].score
               /\ LexLeq(v[k].item.full_path, v[k + 1].item.full_path)

\* C14 witness: a result with two scores and with a tie broken by the key,
\* an upper-case key before a lower-case one, from items given in another
\* order.
C14_Witness ==
    /\ RankCalled /\ query # <<>>
    /\ Len(rank_ret[1].value) = 3
    /\ rank_ret[1].value[1].score = rank_ret[1].value[2].score
    /\ rank_ret[1].value[2].score > rank_ret[1].value[3].score
    /\ isupper(rank_ret[1].value[1].item.full_path[1])
    /\ islower(rank_ret[1].value[2].item.full_path[1])
    /\ items[1] = rank_ret[1].value[3].item

\* C15: for a non-empty query every returned pair is an input item whose key
\* the query matches, with the score fuzzy_score gives it.
C15_OnlyScoredMatches ==
    (RankCalled /\ query # <<>>) =>
        \A k \in 1..Len(rank_ret[1].value) :
            LET x == rank_ret[1].value[k] IN
            /\ \E i \in 1..Len(items) : items[i] = x.item
            /\ IsSubsequence(query, x.item.full_path)
            /\ fuzzy_score(query, x.item.full_path) = Score(x.score)

\* C15 witness: some items match and are returned, one does not match.
C15_Witness ==
    /\ RankCalled /\ query # <<>> /\ limit = Len(items)
    /\ Len(rank_ret[1].value) = 2
    /\ Len(items) = 3
    /\ \E i \in 1..Len(items) : ~IsSubsequence(query, items[i].full_path)

\* C16: for a non-empty query and limit >= 0 rank_matches returns exactly
\* min(limit, m) results, m the number of matching items, and no matching
\* item left out ranks strictly before a returned one.
C16_TopOfRanking ==
    (RankCalled /\ query # <<>> /\ limit >= 0) =>
        LET v == rank_ret[1].value
            returned == {v[k].item : k \in 1..Len(v)}
        IN /\ Len(v) = Min(limit, Cardinality(MatchingItems(query, items)))
           /\ Cardinality(returned) = Len(v)
           /\ \A x \in MatchingItems(query, items) \ returned :
                 \A k \in 1..Len(v) :
                    ~RanksBefore(x, fuzzy_score(query, x.full_path).score,
                                 v[k].item, v[k].score)

\* C16 witness: more items match than the limit allows, and one of the
\* first limit matching items of the input is left out.
C16_Witness ==
    /\ RankCalled /\ query # <<>> /\ limit = 1
    /\ Cardinality(MatchingItems(query, items)) = 3
    /\ Len(rank_ret[1].value) = 1
    /\ rank_ret[1].value[1].item = items[3]

\* C17 as stated: for a non-empty query the output of rank_matches is the
\* same for every permutation of the same items, also when distinct items
\* share a key and a score (read here for a limit >= 0).
C17_OrderIndependent ==
    (RankCalled /\ PermCalled /\ query # <<>> /\ limit >= 0) =>
        perm_ret[1].ret.value = rank_ret[1].value

\* C17 amended: for a non-empty query the output of rank_matches is the same
\* for every permutation of the same items, provided no two distinct
\* matching items share the same key.
C17_OrderIndependentForDistinctKeys ==
    (/\ RankCalled /\ PermCalled /\ query # <<>>
     /\ \A x, y \in MatchingItems(query, items) :
           x # y => x.full_path # y.full_path) =>
        perm_ret[1].ret.value = rank_ret[1].value

\* C17 witness: two calls on different orders of items with distinct keys,
\* two of which tie in score, return the same non-empty list.
C17_Witness ==
    /\ RankCalled /\ PermCalled /\ query # <<>>
    /\ \A x, y \in MatchingItems(query, items) :
          x # y => x.full_path # y.full_path
    /\ perm_ret[1].items # items
    /\ Len(rank_ret[1].value) >= 2
    /\ rank_ret[1].value[1].score = rank_ret[1].value[2].score
    /\ perm_ret[1].ret.value = rank_ret[1].value

\* C18: rank_matches called with a negative limit is rejected with an error
\* and returns no list, for an empty and for a non-empty query.
C18_NegativeLimitRejected ==
    (RankCalled /\ limit < 0) =>
        /\ rank_ret[1].raised
        /\ rank_ret[1].value = <<>>

\* C20: search_notes with a blank query (empty or whitespace only) returns
\* an empty list without opening the database or issuing a storage query.
C20_BlankQueryTouchesNoStorage ==
    (search_ret # <<>> /\ \A k \in 1..Len(query) : query[k] \in Whitespace) =>
        /\ ~search_ret[1].raised
        /\ search_ret[1].value = <<>>
        /\ db_log = <<>>

\* C20 witness: a whitespace-only query was searched in a database with
\* notes whose storage would have failed.
C20_Witness ==
    /\ search_ret # <<>>
    /\ query # <<>>
    /\ \A k \in 1..Len(query) : query[k] \in Whitespace
    /\ db # {}
    /\ fail_at = "connect"

\* search_notes has been called
SearchCalled == search_ret # <<>>

\* the query is not blank: some character of it is not whitespace
NonBlank(q) == \E k \in 1..Len(q) : q[k] \notin Whitespace

\* the number of times the storage operation op was performed
CountOf(log, op) == Cardinality({k \in 1..Len(log) : log[k] = op})

\* C21: when the storage query of search_notes fails, search_notes raises
\* and returns no list, the query was issued once, and the connection was
\* closed as the last storage operation.
C21_StorageFailurePropagates ==
    (SearchCalled /\ NonBlank(query) /\ fail_at = "execute") =>
        /\ search_ret[1].raised
        /\ search_ret[1].value = <<>>
        /\ CountOf(db_log, "execute") = 1
        /\ CountOf(db_log, "connect") = 1
        /\ db_log[Len(db_log)] = "close"

\* C21 witness: the storage query failed on a database that holds notes the
\* query matches.
C21_Witness ==
    /\ SearchCalled /\ NonBlank(query) /\ fail_at = "execute"
    /\ \E row \in db : IsSubsequence(query, row.full_path)
    /\ search_ret[1].raised

\* the rows that satisfy the prefilter pattern of q
Prefiltered(rows, q) ==
    {row \in rows : sql_like(lower(row.full_path), build_sql_pattern(q))}

\* the candidate lists: the first Min(n, number of prefiltered rows) of the
\* prefiltered rows in full_path order
Candidates(rows, q, n) ==
    LET sat == Prefiltered(rows, q) IN
    {c \in [1..Min(n, Cardinality(sat)) -> sat] :
        /\ \A i, j \in 1..Len(c) : i # j => c[i] # c[j]
        /\ \A i \in 1..(Len(c) - 1) : LexLeq(c[i].full_path, c[i + 1].full_path)
        /\ \A row \in sat \ {c[i] : i \in 1..Len(c)} :
              \A i \in 1..Len(c) : LexLeq(c[i].full_path, row.full_path)}

\* C22: for a non-blank query and limits >= 0, search_notes returns the
\* notes of rank_matches on the candidates, in ranked order with scores
\* dropped, the candidates being the at most candidate_limit prefiltered
\* rows in full_path order; at most limit notes are returned and the query
\* matches the full_path of each.
C22_SearchIsRankedCandidates ==
    (/\ SearchCalled /\ NonBlank(query) /\ fail_at = "none"
     /\ limit >= 0 /\ candidate_limit >= 0) =>
        LET v == search_ret[1].value IN
        /\ ~search_ret[1].raised
        /\ \E c \in Candidates(db, query, candidate_limit) :
              /\ Len(c) <= candidate_limit
              /\ LET ranked == rank_matches(query, c, limit).value IN
                 /\ Len(v) = Len(ranked)
                 /\ \A k \in 1..Len(v) : v[k] = ranked[k].item
        /\ Len(v) <= limit
        /\ \A k \in 1..Len(v) : IsSubsequence(query, v[k].full_path)
        /\ \A k \in 1..(Len(v) - 1) :
              ~RanksBefore(v[k + 1], fuzzy_score(query, v[k + 1].full_path).score,
                           v[k], fuzzy_score(query, v[k].full_path).score)

\* C22 witness: more rows satisfy the prefilter than candidate_limit admits
\* and more candidates match than limit admits; the note returned is not
\* the first candidate.
C22_Witness ==
    /\ SearchCalled /\ NonBlank(query) /\ fail_at = "none"
    /\ candidate_limit = 2 /\ limit = 1
    /\ Cardinality(Prefiltered(db, query)) = 3
    /\ Len(search_ret[1].value) = 1
    /\ \E c \in Candidates(db, query, candidate_limit) :
          search_ret[1].value[1] = c[2]

\* a and b are the same word up to the case of their letters
SameIgnoringCase(a, b) == lower(a) = lower(b)

\* the signals the protocol assigns to the command word
SignalsOf(word) ==
    IF SameIgnoringCase(word, <<"T", "O", "G", "G", "L", "E">>) THEN <<"toggle_requested">>
    ELSE IF SameIgnoringCase(word, <<"S", "H", "O", "W">>) THEN <<"show_requested">>
    ELSE IF SameIgnoringCase(word, <<"H", "I", "D", "E">>) THEN <<"hide_requested">>
    ELSE IF SameIgnoringCase(word, <<"Q", "U", "I", "T">>) THEN <<"quit_requested">>
    ELSE IF SameIgnoringCase(word, <<"S", "T", "O", "P">>) THEN <<"quit_requested">>
    ELSE <<>>

\* C23: the IPC server maps each received command, compared without regard
\* to case after stripping whitespace, to exactly one signal emission:
\* TOGGLE to toggle_requested, SHOW to show_requested, HIDE to
\* hide_requested, QUIT and STOP to quit_requested; PING and any other
\* command emit no signal.
C23_CommandToSignal ==
    (received # <<>>) => emitted = SignalsOf(strip(received[1]))

\* C23 witness: a lower-case command with surrounding whitespace was
\* received and its one signal emitted.
C23_Witness ==
    /\ received # <<>>
    /\ Head(received[1]) = " "
    /\ strip(received[1]) = <<"h", "i", "d", "e">>
    /\ emitted = <<"hide_requested">>

\* the slots the command sent by the client has to run
SlotsOf(cmd) ==
    LET signals == SignalsOf(strip(cmd)) IN
    [k \in 1..Len(signals) |-> slot_of(signals[k])]

\* C24 as stated: for every command, send_command returns True only after
\* the command's signal has been emitted and its slot run, and returns
\* False when the socket file does not exist, when the connection fails or
\* times out, or when the reply is not OK.
C24_TrueMeansApplied ==
    /\ client_ret = <<TRUE>> =>
          /\ emitted = SignalsOf(strip(command))
          /\ handled = SlotsOf(command)
    /\ client_pc \in {"no_path", "refused", "broken_pipe", "timeout", "eof"} =>
          client_ret = <<FALSE>>
    /\ (client_pc = "replied" /\ reply # <<OK_REPLY>>) => client_ret = <<FALSE>>

\* C24 amended: the same for every command that with its newline fits the
\* 64 bytes the server reads.
C24_TrueMeansAppliedWhenFits ==
    /\ (client_ret = <<TRUE>> /\ Len(command) + 1 <= RECV_SIZE) =>
          /\ emitted = SignalsOf(strip(command))
          /\ handled = SlotsOf(command)
    /\ client_pc \in {"no_path", "refused", "broken_pipe", "timeout", "eof"} =>
          client_ret = <<FALSE>>
    /\ (client_pc = "replied" /\ reply # <<OK_REPLY>>) => client_ret = <<FALSE>>

\* C24 witness: send_command returned True for a TOGGLE padded to the 64
\* bytes the server reads, and the window's slot has run.
C24_Witness ==
    /\ client_ret = <<TRUE>>
    /\ Len(command) + 1 = RECV_SIZE
    /\ handled = <<"_toggle_window">>

\* the alignments of q in t: the strictly increasing sequences of 0-based
\* positions of t that spell q up to case
Alignments(q, t) ==
    {f \in [1..Len(q) -> 0..(Len(t) - 1)] :
        /\ \A k \in 1..(Len(q) - 1) : f[k] < f[k + 1]
        /\ \A k \in 1..Len(q) : lower_char(At(t, f[k])) = lower_char(q[k])}

\* the documented score of an alignment
AlignmentScore(t, f) == ContributionSum(t, f, Len(f))

\* the best score any alignment of q in t has
BestScore(q, t) ==
    CHOOSE best \in {AlignmentScore(t, f) : f \in Alignments(q, t)} :
        \A f \in Alignments(q, t) : AlignmentScore(t, f) <= best

\* the alignment that puts every query character at the earliest position
\* any alignment puts it
Leftmost(q, t) ==
    CHOOSE f \in Alignments(q, t) :
        \A g \in Alignments(q, t) : \A k \in 1..Len(q) : f[k] <= g[k]

Did(e) == \E k \in 1..Len(effects) : effects[k] = e

\* C26 as stated: toggle() goes from IDLE to RECORDING, or to ERROR with an
\* error message; from RECORDING to TRANSCRIBING with transcription started,
\* or to ERROR; from COMPLETED to RECORDING with the text cleared; from
\* ERROR to IDLE with the error message cleared; and to no other state.
C26_ToggleTransitions ==
    (last_call.name = "toggle") =>
        CASE last_call.from = IDLE ->
                \/ controller.state = RECORDING
                \/ controller.state = ERROR /\ controller.error_message # ""
          [] last_call.from = RECORDING ->
                \/ controller.state = TRANSCRIBING /\ Did("transcription_started")
                \/ controller.state = ERROR
          [] last_call.from = COMPLETED ->
                controller.state = RECORDING /\ controller.transcribed_text = ""
          [] last_call.from = ERROR ->
                controller.state = IDLE /\ controller.error_message = ""
          [] last_call.from = TRANSCRIBING ->
                controller.state = TRANSCRIBING

\* C26 amended: the same, except that from COMPLETED toggle() goes to
\* RECORDING, or to ERROR with an error message if the recorder fails to
\* start, the text cleared in both cases.
C26_ToggleTransitionsWithFailedRestart ==
    (last_call.name = "toggle") =>
        CASE last_call.from = IDLE ->
                \/ controller.state = RECORDING
                \/ controller.state = ERROR /\ controller.error_message # ""
          [] last_call.from = RECORDING ->
                \/ controller.state = TRANSCRIBING /\ Did("transcription_started")
                \/ controller.state = ERROR
          [] last_call.from = COMPLETED ->
                /\ controller.transcribed_text = ""
                /\ \/ controller.state = RECORDING
                   \/ controller.state = ERROR /\ controller.error_message # ""
          [] last_call.from = ERROR ->
                controller.state = IDLE /\ controller.error_message = ""
          [] last_call.from = TRANSCRIBING ->
                controller.state = TRANSCRIBING

\* C26 witness: a toggle in COMPLETED on which the recorder failed to start.
C26_Witness ==
    /\ last_call.name = "toggle" /\ last_call.from = COMPLETED
    /\ controller.state = ERROR
    /\ controller.transcribed_text = ""
    /\ clipboard.text = "hello"

\* C27: a toggle() received in TRANSCRIBING changes neither the state, the
\* text, the error message or the progress message, emits no signal and
\* starts or stops neither the recorder nor the transcriber.
C27_ToggleIgnoredWhileTranscribing ==
    [][(/\ calls' = calls + 1
        /\ last_call'.name = "toggle"
        /\ controller.state = TRANSCRIBING) =>
           /\ UNCHANGED <<controller, clipboard, recorder, transcriber, files,
                          mailbox>>
           /\ effects' = <<>>]_vars

\* C27 witness: a toggle was made in TRANSCRIBING while the worker had not
\* run yet.
C27_Witness ==
    /\ last_call.name = "toggle" /\ last_call.from = TRANSCRIBING
    /\ controller.state = TRANSCRIBING
    /\ transcriber.thread /\ ~transcriber.worker_done

\* C28: after _on_transcription_finished the state is COMPLETED, the text
\* is the text delivered and the progress message is empty, and the
\* clipboard was written, with that text, iff there is a clipboard and the
\* text is not empty; _on_transcription_error does not write the clipboard.
C28_FinishedCompletesAndCopies ==
    /\ (last_call.name = "_on_transcription_finished") =>
          /\ controller.state = COMPLETED
          /\ controller.transcribed_text = last_call.arg
          /\ controller.progress_message = ""
          /\ Did("clipboard.setText") <=>
                (clipboard.present /\ last_call.arg # "")
          /\ Did("clipboard.setText") => clipboard.text = last_call.arg
    /\ (last_call.name = "_on_transcription_error") =>
          ~Did("clipboard.setText")

\* C28 witness: a transcription finished with a text that was copied over
\* the clipboard's previous content.
C28_Witness ==
    /\ last_call = [name |-> "_on_transcription_finished",
                    from |-> TRANSCRIBING, arg |-> "hello"]
    /\ controller.state = COMPLETED
    /\ clipboard = [present |-> TRUE, text |-> "hello"]
    /\ Did("clipboard.setText")

\* C29: in every reachable state the recorder is recording (is_recording is
\* true or an input stream is open) iff the controller is in RECORDING, and
\* no input stream is opened while another is open.
C29_RecorderFollowsState ==
    /\ (recorder.is_recording \/ recorder.stream # "none") <=>
          (controller.state = RECORDING)
    /\ recorder.open_streams <= 1

\* C30: _on_transcription_finished and _on_transcription_error act only in
\* TRANSCRIBING: a result or error delivered in another state (after
\* reset(), or after a new recording has started) changes neither the
\* state nor the text and does not write the clipboard.
C30_ResultOnlyWhileTranscribing ==
    (/\ last_call.name \in {"_on_transcription_finished",
                           "_on_transcription_error"}
     /\ last_call.from # TRANSCRIBING) =>
        /\ controller.state = last_call.from
        /\ ~Did("stateChanged")
        /\ ~Did("transcribedTextChanged")
        /\ ~Did("clipboard.setText")

\* the queued worker signals that end a transcription
QueuedEndings ==
    Cardinality({k \in 1..Len(mailbox) : mailbox[k].kind \in {"finished", "error"}})

\* the transcribe() calls whose worker has not run yet
WorkersToRun == IF transcriber.thread /\ ~transcriber.worker_done THEN 1 ELSE 0

\* C31: every transcribe() call is eventually followed by exactly one of
\* transcription_finished and transcription_error: no call ever has two, a
\* call without one has its worker or its signal pending, and the n-th call
\* leads to the n-th emission; and a controller in TRANSCRIBING eventually
\* reaches COMPLETED or ERROR.
C31_TranscriptionEnds ==
    /\ [](transcriber.paths = ended + QueuedEndings + WorkersToRun)
    /\ \A n \in 1..MaxCalls : (transcriber.paths >= n) ~> (ended >= n)
    /\ (controller.state = TRANSCRIBING) ~>
           (controller.state \in {COMPLETED, ERROR})

\* C31 witness: two transcriptions were started and both have ended, the
\* second with an error while the model loaded.
C31_Witness ==
    /\ transcriber.paths = 2 /\ ended = 2
    /\ last_call.name = "_on_transcription_error"
    /\ last_call.arg = "no model"
    /\ last_call.from = TRANSCRIBING
    /\ controller.state = ERROR

\* C32: once transcription_finished or transcription_error has been emitted
\* for a transcription, the temporary WAV file recorded for it no longer
\* exists (the n-th file belongs to the n-th transcription).
C32_TempFileDeleted ==
    \A audio_path \in files : audio_path > ended

\* a search has been made on a model that has a database path
ModelSearched == searches > 0 /\ _db_path # <<>>

\* C33: when NoteSearchModel.search returns or raises, every
\* beginResetModel() it called has been followed by an endResetModel(),
\* also when search_notes failed with a storage error; and after a failed
\* search the model holds the results it held before.
C33_ResetBracketClosed ==
    ModelSearched =>
        /\ CountOf(qt_calls, "beginResetModel")
               = CountOf(qt_calls, "endResetModel")
        /\ search_raised = <<TRUE>> => _results = results_before

\* the lists of all the stored notes, in any order
AllStored(rows) ==
    {l \in [1..Cardinality(rows) -> rows] :
        \A i, j \in 1..Cardinality(rows) : i # j => l[i] # l[j]}

\* C34: for a non-blank query, when at most candidate_limit stored rows
\* satisfy the prefilter pattern, search_notes returns the same ordered
\* list of notes as rank_matches applied to all the stored notes (taken in
\* some order) with key full_path and the same limit.
C34_TwoPhaseEqualsOnePhase ==
    (/\ SearchCalled /\ NonBlank(query) /\ fail_at = "none"
     /\ Cardinality(Prefiltered(db, query)) <= candidate_limit) =>
        /\ ~search_ret[1].raised
        /\ \E all \in AllStored(db) :
              search_ret[1].value = notes_of(rank_matches(query, all, limit).value)

====
